---- MODULE Spec2Model ----
(***************************************************************************)
(* Authentication and session lifecycle of the Snowfun Nepal tracker:      *)
(* the in-memory OTP ledger and the phone/OTP login flow                   *)
(* (auth-otp.controller), the password flows (auth.controller), the User   *)
(* entity's password hook, token issue/verification and the authentication *)
(* middleware.                                                             *)
(*                                                                         *)
(* Time is counted in units of 150 seconds (2.5 minutes).  Strings are the *)
(* program's own strings; a bcrypt digest is modelled as the injective     *)
(* image "$2b$10$" \o data.                                                *)
(***************************************************************************)
EXTENDS Integers, Sequences, FiniteSets, TLC

VARIABLES
  now,        \* Date.now(), in units of 150 s
  ticks,      \* number of long clock advances taken (bounds the clock)
  env,        \* process.env: which optional secrets are configured, and NODE_ENV
  users,      \* the users table (Credential Store)
  otpStore,   \* the module-level Map phone -> {otp, expiresAt}
  timers,     \* pending setTimeout callbacks scheduled by storeOTP
  reqs,       \* in-flight POST /api/auth/verify-otp requests
  last,       \* the request completed by the latest step and its response, if any
  jar,        \* the token pair a client kept from an earlier response
  issueCount, \* history: number of storeOTP calls so far
  lastIssue,  \* history: per ledger key, code and time of the latest storeOTP while an entry is held
  okSince,    \* history: per ledger key, successful verifyOTP calls since the latest storeOTP
  curPw,      \* history: per account id, the password most recently set with success
  web         \* the web client: localStorage, the login-phone page and the api call in flight

vars == <<now, ticks, env, users, otpStore, timers, reqs, last, jar,
          issueCount, lastIssue, okSince, curPw, web>>

-----------------------------------------------------------------------------
(* Bounds of the model *)

MaxClock == 2
MaxTicks == 3
MaxIssues == 2
MaxReqs == 2

-----------------------------------------------------------------------------
(* Program constants *)

\* 5 * 60 * 1000 ms, '1h' and '7d', in units of 150 s
OTP_TTL == 2
ACCESS_TTL == 24
REFRESH_TTL == 4032
RESET_TTL == 24
ROLE_ADMIN == 1
ROLE_PSR == 2
MIN_PASSWORD_LEN == 8

None == "<undefined>"

\* an absent (undefined / null) role id
NoRole == 0

-----------------------------------------------------------------------------
(* Strings *)

Digits == {"0", "1", "2", "3", "4", "5", "6", "7", "8", "9"}

Letters == {"a", "b", "c", "d", "e", "f", "g", "h", "i", "j", "k", "l", "m",
            "n", "o", "p", "q", "r", "s", "t", "u", "v", "w", "x", "y", "z",
            "A", "B", "C", "D", "E", "F", "G", "H", "I", "J", "K", "L", "M",
            "N", "O", "P", "Q", "R", "S", "T", "U", "V", "W", "X", "Y", "Z"}

CharAt(s, i) == SubSeq(s, i, i)

startsWith(s, p) == Len(s) >= Len(p) /\ SubSeq(s, 1, Len(p)) = p

substring(s, from) == SubSeq(s, from + 1, Len(s))

AllDigits(s) == \A i \in 1..Len(s) : CharAt(s, i) \in Digits

RECURSIVE stripNonDigits(_)
stripNonDigits(s) ==
  IF s = "" THEN ""
  ELSE (IF CharAt(s, 1) \in Digits THEN CharAt(s, 1) ELSE "")
         \o stripNonDigits(SubSeq(s, 2, Len(s)))

-----------------------------------------------------------------------------
(* The JavaScript Map that backs otpStore, as a set of key/value entries *)

MapHas(m, k) == \E e \in m : e.key = k

MapGet(m, k) == (CHOOSE e \in m : e.key = k).value

\* a delete that removes nothing
MapDelete_noop(m, k) == m

MapDelete(m, k) == {e \in m : e.key # k}

\* a set that adds the entry without replacing the one already stored for the key
MapSet_append(m, k, v) == m \cup {[key |-> k, value |-> v]}

MapSet(m, k, v) == {e \in m : e.key # k} \cup {[key |-> k, value |-> v]}

MapKeys(m) == {e.key : e \in m}

-----------------------------------------------------------------------------
(* Responses.  tokens is <<>> or <<accessToken, refreshToken>> *)

Response(status, error, message) ==
  [status |-> status, error |-> error, message |-> message, tokens |-> <<>>]

TokenResponse(status, message, tokens) ==
  [status |-> status, error |-> None, message |-> message,
   tokens |-> <<tokens.accessToken, tokens.refreshToken>>]

\* return res.status(400).json({ errors: errors.array() })
ValidationFailed == Response(400, "errors", None)

NoResponse == Response(0, None, None)

-----------------------------------------------------------------------------
(* errorHandler: the response for an error passed to next(error) *)

\* err is a record with a name and a message, and a code, statusCode or stack when
\* the error has one; the status and the message of the response body
errorHandler(err) ==
  IF err.name = "ValidationError"
  THEN Response(400, None, "Validation failed")
  ELSE IF err.name = "EntityNotFoundError"
  THEN Response(404, None, "Resource not found")
  ELSE IF err.name = "QueryFailedError"
  THEN Response(400, None,
                IF err.code = "23505" THEN "Duplicate entry"
                ELSE IF err.code = "23503" THEN "Referenced resource does not exist"
                ELSE "Database operation failed")
  ELSE IF err.name = "UnauthorizedError" \/ ("statusCode" \in DOMAIN err /\ err.statusCode = 401)
  THEN Response(401, None, IF err.message # "" THEN err.message ELSE "Unauthorized")
  ELSE IF err.name = "ForbiddenError" \/ ("statusCode" \in DOMAIN err /\ err.statusCode = 403)
  THEN Response(403, None, IF err.message # "" THEN err.message ELSE "Forbidden")
  ELSE IF "statusCode" \in DOMAIN err /\ err.statusCode # 0
  THEN Response(err.statusCode, None, err.message)
  ELSE IF err.message # ""
  THEN Response(500, None, err.message)
  ELSE Response(500, None, "Internal server error")

\* errorResponse.error.stack: attached outside production when the error has a stack
errorHandlerStack(err, e) ==
  IF e.NODE_ENV # "production" /\ "stack" \in DOMAIN err THEN err.stack ELSE None

-----------------------------------------------------------------------------
(* The roles table (seeded) and the users table with its constraints *)

roles == {[id |-> ROLE_ADMIN, roleName |-> "admin"],
          [id |-> ROLE_PSR, roleName |-> "psr"]}

roleExists(id) == \E r \in roles : r.id = id

\* roleRepository.findOne({ where: { id } }), for an id that exists
roleFindOne(id) == CHOOSE r \in roles : r.id = id

\* relations: ['role']
roleOf(user) == roleFindOne(user.roleId)

NewId(tbl) == Cardinality(tbl) + 1

\* INSERT into users: email, password_hash and role_id are NOT NULL, email is UNIQUE
userInsert(tbl, row) ==
  IF row.email = None \/ row.password_hash = None \/ row.roleId = NoRole
  THEN [ok |-> FALSE, table |-> tbl, id |-> 0,
        err |-> [name |-> "QueryFailedError", code |-> "23502", message |-> "null value"]]
  ELSE IF \E u \in tbl : u.email = row.email
  THEN [ok |-> FALSE, table |-> tbl, id |-> 0,
        err |-> [name |-> "QueryFailedError", code |-> "23505", message |-> "duplicate key"]]
  ELSE [ok |-> TRUE, id |-> NewId(tbl), err |-> None,
        table |-> tbl \cup {[id |-> NewId(tbl), email |-> row.email, phone |-> row.phone,
                             password_hash |-> row.password_hash, roleId |-> row.roleId]}]

-----------------------------------------------------------------------------
(* bcrypt and the User entity's @BeforeInsert/@BeforeUpdate hook *)

bcryptHash(data) == "$2b$10$" \o data

bcryptCompare(data, encrypted) == encrypted = bcryptHash(data)

hashPassword(password_hash) ==
  IF password_hash # None /\ password_hash # "" /\ ~startsWith(password_hash, "$2b$")
  THEN bcryptHash(password_hash)
  ELSE password_hash

-----------------------------------------------------------------------------
(* jsonwebtoken *)

JWT_SECRET == "JWT_SECRET"

\* process.env.JWT_REFRESH_SECRET || process.env.JWT_SECRET
RefreshSecret(e) == IF e.JWT_REFRESH_SECRET THEN "JWT_REFRESH_SECRET" ELSE JWT_SECRET

\* process.env.JWT_RESET_SECRET || process.env.JWT_SECRET
ResetSecret(e) == IF e.JWT_RESET_SECRET THEN "JWT_RESET_SECRET" ELSE JWT_SECRET

jwtSign(payload, secret, expiresIn, t) ==
  [payload |-> payload @@ [iat |-> t, exp |-> t + expiresIn], sig |-> secret]

\* a verification that does not look at the expiry time
jwtVerify_ignoresExpiry(token, secret, t) ==
  IF token.sig # secret THEN [ok |-> FALSE, name |-> "JsonWebTokenError", decoded |-> None]
  ELSE [ok |-> TRUE, name |-> None, decoded |-> token.payload]

jwtVerify(token, secret, t) ==
  IF token.sig # secret THEN [ok |-> FALSE, name |-> "JsonWebTokenError", decoded |-> None]
  ELSE IF t >= token.payload.exp
  THEN [ok |-> FALSE, name |-> "TokenExpiredError", decoded |-> None]
  ELSE [ok |-> TRUE, name |-> None, decoded |-> token.payload]

-----------------------------------------------------------------------------
(* generateTokens, as defined in auth.controller and again in            *)
(* auth-otp.controller.  user is { id, role } with role a roles row.     *)

\* a token pair whose access token always claims the default role
generateTokens_defaultRole(user, e, t) ==
  [accessToken  |-> jwtSign([id |-> user.id, role |-> "psr"], JWT_SECRET, ACCESS_TTL, t),
   refreshToken |-> jwtSign([id |-> user.id], RefreshSecret(e), REFRESH_TTL, t)]

generateTokens(user, e, t) ==
  [accessToken  |-> jwtSign([id |-> user.id, role |-> user.role.roleName],
                            JWT_SECRET, ACCESS_TTL, t),
   refreshToken |-> jwtSign([id |-> user.id], RefreshSecret(e), REFRESH_TTL, t)]

\* a token pair whose refresh token carries the role as well
generateTokensOtp_roleInRefresh(user, e, t) ==
  [accessToken  |-> jwtSign([id |-> user.id, role |-> user.role.roleName],
                            JWT_SECRET, ACCESS_TTL, t),
   refreshToken |-> jwtSign([id |-> user.id, role |-> user.role.roleName],
                            RefreshSecret(e), REFRESH_TTL, t)]

generateTokensOtp(user, e, t) ==
  [accessToken  |-> jwtSign([id |-> user.id, role |-> user.role.roleName],
                            JWT_SECRET, ACCESS_TTL, t),
   refreshToken |-> jwtSign([id |-> user.id], RefreshSecret(e), REFRESH_TTL, t)]

-----------------------------------------------------------------------------
(* OTP ledger (auth-otp.controller) *)

\* Math.floor(100000 + Math.random() * 900000).toString(), with
\* k = Math.floor(Math.random() * 900000)
generateOTP(k) == ToString(100000 + k)

formatNepaliPhone(phone) ==
  LET cleaned == stripNonDigits(phone) IN
  IF startsWith(cleaned, "977") THEN "+" \o cleaned
  ELSE IF startsWith(cleaned, "0") THEN "+977" \o substring(cleaned, 1)
  ELSE IF Len(cleaned) = 10 THEN "+977" \o cleaned
  ELSE phone

\* otpStore.set(phone, { otp, expiresAt })
storeOTPEntry(store, phone, otp, t) ==
  MapSet(store, phone, [otp |-> otp, expiresAt |-> t + OTP_TTL])

\* setTimeout(..., 5 * 60 * 1000)
storeOTPTimer(tms, phone, t) == tms \cup {[phone |-> phone, due |-> t + OTP_TTL]}

\* a cleanup that deletes whatever entry the phone has
cleanupOTP_anyEntry(store, phone, t) ==
  IF MapHas(store, phone) THEN MapDelete(store, phone) ELSE store

\* a cleanup that spares an entry at the very instant of its expiry
cleanupOTP_strictExpiry(store, phone, t) ==
  IF MapHas(store, phone) /\ MapGet(store, phone).expiresAt < t
  THEN MapDelete(store, phone)
  ELSE store

\* the setTimeout callback of storeOTP, run at time t
cleanupOTP(store, phone, t) ==
  IF MapHas(store, phone) /\ MapGet(store, phone).expiresAt <= t
  THEN MapDelete(store, phone)
  ELSE store

\* a verifyOTP that leaves a matched entry in the store
verifyOTP_keepsEntry(store, phone, otp, t) ==
  IF ~MapHas(store, phone) THEN [ok |-> FALSE, store |-> store]
  ELSE LET storedData == MapGet(store, phone) IN
       IF storedData.expiresAt <= t THEN [ok |-> FALSE, store |-> MapDelete(store, phone)]
       ELSE IF storedData.otp # otp THEN [ok |-> FALSE, store |-> store]
       ELSE [ok |-> TRUE, store |-> store]

\* a verifyOTP that discards the entry on a wrong code
verifyOTP_burnsOnMismatch(store, phone, otp, t) ==
  IF ~MapHas(store, phone) THEN [ok |-> FALSE, store |-> store]
  ELSE LET storedData == MapGet(store, phone) IN
       IF storedData.expiresAt <= t THEN [ok |-> FALSE, store |-> MapDelete(store, phone)]
       ELSE IF storedData.otp # otp THEN [ok |-> FALSE, store |-> MapDelete(store, phone)]
       ELSE [ok |-> TRUE, store |-> MapDelete(store, phone)]

\* a verifyOTP that still accepts the code at the instant of expiry
verifyOTP_lateExpiry(store, phone, otp, t) ==
  IF ~MapHas(store, phone) THEN [ok |-> FALSE, store |-> store]
  ELSE LET storedData == MapGet(store, phone) IN
       IF storedData.expiresAt < t THEN [ok |-> FALSE, store |-> MapDelete(store, phone)]
       ELSE IF storedData.otp # otp THEN [ok |-> FALSE, store |-> store]
       ELSE [ok |-> TRUE, store |-> MapDelete(store, phone)]

verifyOTP(store, phone, otp, t) ==
  IF ~MapHas(store, phone) THEN [ok |-> FALSE, store |-> store]
  ELSE LET storedData == MapGet(store, phone) IN
       IF storedData.expiresAt <= t THEN [ok |-> FALSE, store |-> MapDelete(store, phone)]
       ELSE IF storedData.otp # otp THEN [ok |-> FALSE, store |-> store]
       ELSE [ok |-> TRUE, store |-> MapDelete(store, phone)]

-----------------------------------------------------------------------------
(* express-validator chains of the OTP routes *)

\* /^(\+977|977|0)?[9][6-9]\d{8}$/
PhoneValid(phone) ==
  \E pre \in {"", "+977", "977", "0"} :
    /\ startsWith(phone, pre)
    /\ LET rest == substring(phone, Len(pre)) IN
         /\ Len(rest) = 10
         /\ CharAt(rest, 1) = "9"
         /\ CharAt(rest, 2) \in {"6", "7", "8", "9"}
         /\ AllDigits(rest)

\* notEmpty().isLength({ min: 6, max: 6 }).isNumeric()
OtpValid(otp) == Len(otp) = 6 /\ AllDigits(otp)

\* optional().isLength({ min: 2, max: 100 })
FullNameOptValid(fullName) == fullName = None \/ (Len(fullName) >= 2 /\ Len(fullName) <= 100)

-----------------------------------------------------------------------------
(* Inputs of the OTP routes *)

PhoneInputs == {"9841234567", "+9779801234567", "12345"}

\* the values of Math.floor(Math.random() * 900000), Math.random() being in [0, 1)
RandomRange == 0..899999

\* samples of Math.floor(Math.random() * 900000)
RandomSamples == {0, 899999}

OtpInputs == {generateOTP(k) : k \in RandomSamples} \cup {"12345"}

FullNameInputs == {None, "Alice A", "A"}

\* bodies of verify-otp requests: every code for the registered phone, every name for
\* a new phone, and one body per validation rule
VerifyInputs ==
  ({"9841234567"} \X {o \in OtpInputs : OtpValid(o)} \X {None})
  \cup ({"+9779801234567"} \X {generateOTP(0)} \X {n \in FullNameInputs : FullNameOptValid(n)})
  \cup {<<"12345", "100000", None>>, <<"9841234567", "12345", None>>,
        <<"9841234567", "100000", "A">>}

\* send-otp requests and their outcomes: both codes for the registered phone, and one
\* request each for a new phone, a failed SMS and an invalid phone
SendInputs ==
  ({"9841234567"} \X RandomSamples \X {TRUE})
  \cup {<<"+9779801234567", 0, TRUE>>, <<"9841234567", 0, FALSE>>, <<"12345", 0, TRUE>>}

\* Math.random().toString(36).slice(-10)
RandomPlaceholder == "k3j9x0q2ab"

LedgerKeys == {formatNepaliPhone(p) : p \in {q \in PhoneInputs : PhoneValid(q)}}

ReqIds == 1..MaxReqs

\* a request slot; fresh is history: the request's verifyOTP succeeded on the
\* latest storeOTP of its phone
Idle == [pc |-> "idle", phone |-> None, fullName |-> None, fresh |-> FALSE]

\* the latest code of a key and its time of issue are remembered for as long as the
\* ledger holds the key
NoIssue == [otp |-> None, at |-> 0]

Remember(issued, store) ==
  [p \in DOMAIN issued |-> IF MapHas(store, p) THEN issued[p] ELSE NoIssue]

\* key is the ledger key of a request of the OTP routes
Completed(op, key, resp) == [op |-> op, key |-> key, resp |-> resp]

\* the step completes no request
Silent == Completed(None, None, NoResponse)

SetPw(f, id, pw) == [x \in DOMAIN f \cup {id} |-> IF x = id THEN pw ELSE f[x]]

-----------------------------------------------------------------------------
(* POST /api/auth/send-otp *)

sendOTP(phone, k, smsSent) ==
  /\ issueCount < MaxIssues
  /\ IF ~PhoneValid(phone)
     THEN /\ last' = Completed("sendOTP", None, ValidationFailed)
          /\ UNCHANGED <<otpStore, timers, issueCount, lastIssue, okSince, reqs>>
     ELSE LET formattedPhone == formatNepaliPhone(phone)
              otp == generateOTP(k)
          IN /\ otpStore' = storeOTPEntry(otpStore, formattedPhone, otp, now)
             /\ timers' = storeOTPTimer(timers, formattedPhone, now)
             /\ issueCount' = issueCount + 1
             /\ lastIssue' = Remember([lastIssue EXCEPT ![formattedPhone] = [otp |-> otp, at |-> now]],
                                       otpStore')
             /\ okSince' = [okSince EXCEPT ![formattedPhone] = 0]
             /\ reqs' = [r \in ReqIds |->
                          IF reqs[r].phone = formattedPhone
                          THEN [reqs[r] EXCEPT !.fresh = FALSE] ELSE reqs[r]]
             /\ last' = Completed("sendOTP", formattedPhone,
                          IF smsSent
                          THEN Response(200, None, "OTP sent successfully")
                          ELSE Response(500, "Failed to send OTP",
                                 "Could not send verification code. Please try again."))
  /\ UNCHANGED <<now, ticks, env, web, users, jar, curPw>>

\* the cleanup callback scheduled by storeOTP fires, at or after its due time
FireTimer(tm) ==
  /\ tm \in timers
  /\ now >= tm.due
  /\ timers' = timers \ {tm}
  /\ otpStore' = cleanupOTP(otpStore, tm.phone, now)
  /\ lastIssue' = Remember(lastIssue, otpStore')
  /\ last' = Silent
  /\ UNCHANGED <<now, ticks, env, web, users, reqs, jar, issueCount, okSince, curPw>>

-----------------------------------------------------------------------------
(* POST /api/auth/verify-otp, one action per stretch between awaits.      *)
(* Concurrent requests take the lowest free slot.                         *)

VerifyDone(r, key, resp) ==
  /\ reqs' = [reqs EXCEPT ![r] = Idle]
  /\ last' = Completed("verifyOTPAndLogin", key, resp)

\* verifyOTPAndLogin up to its first await: validation, formatNepaliPhone and
\* verifyOTP run synchronously; done says that the response was sent
verifyOTPAndLoginBegin(store, phone, otp, fullName, t) ==
  IF ~(PhoneValid(phone) /\ OtpValid(otp) /\ FullNameOptValid(fullName))
  THEN [done |-> TRUE, key |-> None, resp |-> ValidationFailed, store |-> store]
  ELSE LET formattedPhone == formatNepaliPhone(phone)
           v == verifyOTP(store, formattedPhone, otp, t)
       IN IF ~v.ok
          THEN [done |-> TRUE, key |-> formattedPhone, store |-> v.store,
                resp |-> Response(401, "Invalid OTP",
                                  "The verification code is invalid or has expired.")]
          ELSE [done |-> FALSE, key |-> formattedPhone, store |-> v.store,
                resp |-> NoResponse]

VerifyBegin(r, phone, otp, fullName) ==
  /\ reqs[r].pc = "idle"
  /\ \A q \in ReqIds : q < r => reqs[q].pc # "idle"
  /\ LET s == verifyOTPAndLoginBegin(otpStore, phone, otp, fullName, now) IN
     /\ otpStore' = s.store
     /\ IF s.key = None
        THEN UNCHANGED lastIssue
        ELSE lastIssue' = Remember(lastIssue, otpStore')
     /\ IF s.done
        THEN /\ VerifyDone(r, s.key, s.resp)
             /\ UNCHANGED okSince
        ELSE /\ reqs' = [reqs EXCEPT ![r] =
                   [pc |-> "findUser", phone |-> s.key,
                    fullName |-> fullName, fresh |-> TRUE]]
             /\ okSince' = [okSince EXCEPT ![s.key] = @ + 1]
             /\ last' = Silent
  /\ UNCHANGED <<now, ticks, env, web, users, timers, jar, issueCount, curPw>>

\* userRepository.findOne({ where: { phone } }) and, for a new user, the role lookup
VerifyFindUser(r) ==
  /\ reqs[r].pc = "findUser"
  /\ LET matches == {u \in users : u.phone = reqs[r].phone} IN
     IF matches # {}
     THEN \E user \in matches :
            VerifyDone(r, reqs[r].phone, TokenResponse(200, "Authentication successful",
                generateTokensOtp([id |-> user.id, role |-> roleOf(user)], env, now)))
     ELSE IF reqs[r].fullName = None \/ reqs[r].fullName = ""
     THEN VerifyDone(r, reqs[r].phone, Response(400, "Registration Required",
              "User not found. Please provide your full name to register."))
     ELSE IF ~roleExists(ROLE_PSR)
     THEN VerifyDone(r, reqs[r].phone, Response(500, "Server Error", "Could not assign user role."))
     ELSE /\ reqs' = [reqs EXCEPT ![r].pc = "save"]
          /\ last' = Silent
  /\ UNCHANGED <<now, ticks, env, web, users, otpStore, timers, jar, issueCount,
                 lastIssue, okSince, curPw>>

\* userRepository.save(user), then generateTokens
VerifySave(r) ==
  /\ reqs[r].pc = "save"
  /\ LET ins == userInsert(users, [email |-> None, phone |-> reqs[r].phone,
                                   password_hash |-> hashPassword(RandomPlaceholder),
                                   roleId |-> ROLE_PSR])
     IN IF ins.ok
        THEN /\ users' = ins.table
             /\ curPw' = SetPw(curPw, ins.id, RandomPlaceholder)
             /\ VerifyDone(r, reqs[r].phone, TokenResponse(200, "Authentication successful",
                    generateTokensOtp([id |-> ins.id, role |-> roleFindOne(ROLE_PSR)],
                                      env, now)))
        ELSE /\ VerifyDone(r, reqs[r].phone, errorHandler(ins.err))
             /\ UNCHANGED <<users, curPw>>
  /\ UNCHANGED <<now, ticks, env, web, otpStore, timers, jar, issueCount, lastIssue,
                 okSince>>

\* one unit of time passes
Tick ==
  /\ now < MaxClock
  /\ now' = now + 1
  /\ last' = Silent
  /\ UNCHANGED <<ticks, env, web, users, otpStore, timers, reqs, jar, issueCount,
                 lastIssue, okSince, curPw>>

-----------------------------------------------------------------------------
(* express-validator chains of the password routes *)

IndexOf(s, ch) ==
  IF \E i \in 1..Len(s) : CharAt(s, i) = ch
  THEN CHOOSE i \in 1..Len(s) : CharAt(s, i) = ch /\ \A j \in 1..(i - 1) : CharAt(s, j) # ch
  ELSE 0

\* isEmail(): local part, "@", domain with a dot
IsEmail(email) ==
  LET at == IndexOf(email, "@") IN
  /\ at > 1
  /\ LET domain == substring(email, at) IN
       /\ IndexOf(domain, "@") = 0
       /\ IndexOf(domain, ".") > 1
       /\ IndexOf(domain, ".") < Len(domain)

\* isLength({ min: 8 }).matches(/[a-zA-Z]/).matches(/\d/)
PasswordStrong(password) ==
  /\ Len(password) >= MIN_PASSWORD_LEN
  /\ \E i \in 1..Len(password) : CharAt(password, i) \in Letters
  /\ \E i \in 1..Len(password) : CharAt(password, i) \in Digits

\* notEmpty().isLength({ min: 2, max: 100 })
FullNameValid(fullName) == fullName # None /\ Len(fullName) >= 2 /\ Len(fullName) <= 100

\* optional().isMobilePhone(), on the ne-NP pattern /^(\+?977)?9[78]\d{8}$/
IsMobilePhoneOpt(phone) ==
  \/ phone = None
  \/ \E pre \in {"", "+977", "977"} :
       /\ startsWith(phone, pre)
       /\ LET rest == substring(phone, Len(pre)) IN
            /\ Len(rest) = 10
            /\ CharAt(rest, 1) = "9"
            /\ CharAt(rest, 2) \in {"7", "8"}
            /\ AllDigits(rest)

\* optional().isInt({ min: 1 })
RoleIdOptValid(roleId) == roleId = NoRole \/ roleId >= 1

-----------------------------------------------------------------------------
(* Tokens held by a client.  NoToken is also a malformed token. *)

NoToken == [payload |-> [id |-> 0, iat |-> 0, exp |-> 0], sig |-> None]

EmptyJar == [accessToken |-> NoToken, refreshToken |-> NoToken, resetToken |-> NoToken]

\* the client keeps the token pair returned by register and login
Kept(j, resp) ==
  IF resp.tokens = <<>> THEN j
  ELSE [j EXCEPT !.accessToken = resp.tokens[1], !.refreshToken = resp.tokens[2]]

userById(tbl, id) == CHOOSE u \in tbl : u.id = id

userByEmail(tbl, email) == CHOOSE u \in tbl : u.email = email

\* property access on an object: undefined when the object has no such property
Prop(obj, name) == IF name \in DOMAIN obj THEN obj[name] ELSE None

-----------------------------------------------------------------------------
(* authMiddleware: header is <<>>, <<"Bearer">> or <<"Bearer", token>> *)

Unauthorized(message) == Response(401, "Unauthorized", message)

\* a middleware that lets a header without a token through
authMiddleware_lenientHeader(tbl, header, t) ==
  IF header = <<>>
  THEN [next |-> FALSE, user |-> None,
        resp |-> Unauthorized("Authentication required. No token provided.")]
  ELSE IF Len(header) < 2
  THEN [next |-> TRUE, resp |-> NoResponse,
        user |-> [id |-> 0, email |-> None, role |-> None]]
  ELSE LET v == jwtVerify(header[2], JWT_SECRET, t) IN
       IF ~v.ok
       THEN [next |-> FALSE, user |-> None,
             resp |-> IF v.name = "JsonWebTokenError"
                      THEN Unauthorized("Invalid authentication token.")
                      ELSE Unauthorized("Authentication token has expired. Please login again.")]
       ELSE IF ~\E u \in tbl : u.id = v.decoded.id
       THEN [next |-> FALSE, user |-> None,
             resp |-> Unauthorized("User no longer exists or access has been revoked.")]
       ELSE LET user == userById(tbl, v.decoded.id) IN
            [next |-> TRUE, resp |-> NoResponse,
             user |-> [id |-> user.id, email |-> user.email,
                       role |-> Prop(roleOf(user), "role_name")]]

authMiddleware(tbl, header, t) ==
  IF header = <<>>
  THEN [next |-> FALSE, user |-> None,
        resp |-> Unauthorized("Authentication required. No token provided.")]
  ELSE IF Len(header) < 2
  THEN [next |-> FALSE, user |-> None,
        resp |-> Unauthorized("Invalid authentication format. Expected \"Bearer [token]\".")]
  ELSE LET v == jwtVerify(header[2], JWT_SECRET, t) IN
       IF ~v.ok
       THEN [next |-> FALSE, user |-> None,
             resp |-> IF v.name = "JsonWebTokenError"
                      THEN Unauthorized("Invalid authentication token.")
                      ELSE Unauthorized("Authentication token has expired. Please login again.")]
       ELSE IF ~\E u \in tbl : u.id = v.decoded.id
       THEN [next |-> FALSE, user |-> None,
             resp |-> Unauthorized("User no longer exists or access has been revoked.")]
       ELSE LET user == userById(tbl, v.decoded.id) IN
            [next |-> TRUE, resp |-> NoResponse,
             user |-> [id |-> user.id, email |-> user.email,
                       role |-> Prop(roleOf(user), "role_name")]]

-----------------------------------------------------------------------------
(* auth.controller: the handlers as functions of the table and the request *)

\* explicit roleId if supplied, else Role.ROLES.PSR
resolveRoleId(roleId) == IF roleId # NoRole THEN roleId ELSE ROLE_PSR

\* a lookup that never finds the account
existingUser_none(tbl, email) == FALSE

\* userRepository.findOne({ where: { email } }) finds an account
existingUser(tbl, email) == \E u \in tbl : u.email = email

\* register from the role lookup on: the lookup, create, save and the response
registerSave(tbl, email, password, phone, roleId, e, t) ==
  IF ~roleExists(resolveRoleId(roleId))
  THEN [resp |-> Response(400, "Bad Request", "Invalid role specified"),
        table |-> tbl, id |-> 0]
  ELSE LET ins == userInsert(tbl, [email |-> email, phone |-> phone,
                                   password_hash |-> hashPassword(password),
                                   roleId |-> resolveRoleId(roleId)])
       IN IF ~ins.ok
          THEN [resp |-> errorHandler(ins.err), table |-> tbl, id |-> 0]
          ELSE [resp |-> TokenResponse(201, "User registered successfully",
                           generateTokens([id |-> ins.id,
                                           role |-> roleFindOne(resolveRoleId(roleId))], e, t)),
                table |-> ins.table, id |-> ins.id]

RegisterBodyValid(email, password, fullName, phone, roleId) ==
  /\ IsEmail(email) /\ PasswordStrong(password) /\ FullNameValid(fullName)
  /\ IsMobilePhoneOpt(phone) /\ RoleIdOptValid(roleId)

EmailConflictResponse == Response(409, "Conflict", "User with this email already exists")

register(tbl, email, password, fullName, phone, roleId, e, t) ==
  IF ~RegisterBodyValid(email, password, fullName, phone, roleId)
  THEN [resp |-> ValidationFailed, table |-> tbl, id |-> 0]
  ELSE IF existingUser(tbl, email)
  THEN [resp |-> EmailConflictResponse, table |-> tbl, id |-> 0]
  ELSE registerSave(tbl, email, password, phone, roleId, e, t)

\* a login that tells an unknown email from a wrong password
login_namesUnknownEmail(tbl, email, password, e, t) ==
  IF ~(IsEmail(email) /\ password # "")
  THEN ValidationFailed
  ELSE IF ~\E u \in tbl : u.email = email
  THEN Unauthorized("User not found")
  ELSE LET user == userByEmail(tbl, email) IN
       IF ~bcryptCompare(password, user.password_hash)
       THEN Unauthorized("Invalid email or password")
       ELSE TokenResponse(200, "Login successful",
              generateTokens([id |-> user.id, role |-> roleOf(user)], e, t))

login(tbl, email, password, e, t) ==
  IF ~(IsEmail(email) /\ password # "")
  THEN ValidationFailed
  ELSE IF ~\E u \in tbl : u.email = email
  THEN Unauthorized("Invalid email or password")
  ELSE LET user == userByEmail(tbl, email) IN
       IF ~bcryptCompare(password, user.password_hash)
       THEN Unauthorized("Invalid email or password")
       ELSE TokenResponse(200, "Login successful",
              generateTokens([id |-> user.id, role |-> roleOf(user)], e, t))

\* a refresh that copies the role from the presented token, or the default role
refreshToken_cachedRole(tbl, token, e, t) ==
  IF token = <<>>
  THEN Response(400, "Bad Request", "Refresh token is required")
  ELSE LET v == jwtVerify(token[1], RefreshSecret(e), t) IN
       IF ~v.ok THEN Unauthorized("Invalid or expired refresh token")
       ELSE IF ~\E u \in tbl : u.id = v.decoded.id
       THEN Unauthorized("User not found")
       ELSE LET user == userById(tbl, v.decoded.id)
                cached == IF "role" \in DOMAIN v.decoded
                          THEN [id |-> 0, roleName |-> v.decoded.role]
                          ELSE roleFindOne(ROLE_PSR)
            IN TokenResponse(200, "Token refreshed successfully",
                 generateTokens([id |-> user.id, role |-> cached], e, t))

\* token is <<>> when the body has no refreshToken
refreshToken(tbl, token, e, t) ==
  IF token = <<>>
  THEN Response(400, "Bad Request", "Refresh token is required")
  ELSE LET v == jwtVerify(token[1], RefreshSecret(e), t) IN
       IF ~v.ok THEN Unauthorized("Invalid or expired refresh token")
       ELSE IF ~\E u \in tbl : u.id = v.decoded.id
       THEN Unauthorized("User not found")
       ELSE LET user == userById(tbl, v.decoded.id) IN
            TokenResponse(200, "Token refreshed successfully",
              generateTokens([id |-> user.id, role |-> roleOf(user)], e, t))

\* user.password_hash = newPassword; userRepository.save(user) runs the @BeforeUpdate hook
savePassword(tbl, id, newPassword) ==
  {IF u.id = id THEN [u EXCEPT !.password_hash = hashPassword(newPassword)] ELSE u : u \in tbl}

\* a changePassword that stores the new password before it compares the current one
changePassword_savesFirst(tbl, header, currentPassword, newPassword, t) ==
  LET auth == authMiddleware(tbl, header, t) IN
  IF ~auth.next THEN [resp |-> auth.resp, table |-> tbl, id |-> 0]
  ELSE IF ~(currentPassword # "" /\ PasswordStrong(newPassword)
            /\ newPassword # currentPassword)
  THEN [resp |-> ValidationFailed, table |-> tbl, id |-> 0]
  ELSE LET user == userById(tbl, auth.user.id) IN
       IF ~bcryptCompare(currentPassword, user.password_hash)
       THEN [resp |-> Unauthorized("Current password is incorrect"),
             table |-> savePassword(tbl, user.id, newPassword), id |-> 0]
       ELSE [resp |-> Response(200, None, "Password changed successfully"),
             table |-> savePassword(tbl, user.id, newPassword), id |-> user.id]

\* the route runs authMiddleware, then the validation chain, then the handler
changePassword(tbl, header, currentPassword, newPassword, t) ==
  LET auth == authMiddleware(tbl, header, t) IN
  IF ~auth.next THEN [resp |-> auth.resp, table |-> tbl, id |-> 0]
  ELSE IF ~(currentPassword # "" /\ PasswordStrong(newPassword)
            /\ newPassword # currentPassword)
  THEN [resp |-> ValidationFailed, table |-> tbl, id |-> 0]
  ELSE LET user == userById(tbl, auth.user.id) IN
       IF ~bcryptCompare(currentPassword, user.password_hash)
       THEN [resp |-> Unauthorized("Current password is incorrect"), table |-> tbl, id |-> 0]
       ELSE [resp |-> Response(200, None, "Password changed successfully"),
             table |-> savePassword(tbl, user.id, newPassword), id |-> user.id]

GenericForgot ==
  Response(200, None, "If your email is registered, you will receive a password reset link")

\* resetToken is the token the response body carries: the one signed for the
\* account unless NODE_ENV is production, where it is signed and sent nowhere
forgotPassword(tbl, email, e, t) ==
  IF ~\E u \in tbl : u.email = email
  THEN [resp |-> GenericForgot, resetToken |-> NoToken]
  ELSE LET resetToken == jwtSign([id |-> userByEmail(tbl, email).id], ResetSecret(e),
                                 RESET_TTL, t)
       IN IF e.NODE_ENV # "production"
          THEN [resp |-> [GenericForgot EXCEPT !.tokens = <<resetToken>>],
                resetToken |-> resetToken]
          ELSE [resp |-> GenericForgot, resetToken |-> NoToken]

\* token is <<>> when the body has no token
resetPassword(tbl, token, newPassword, e, t) ==
  IF token = <<>> \/ newPassword = ""
  THEN [resp |-> Response(400, "Bad Request", "Token and new password are required"),
        table |-> tbl, id |-> 0]
  ELSE LET v == jwtVerify(token[1], ResetSecret(e), t) IN
       IF ~v.ok
       THEN [resp |-> Unauthorized("Invalid or expired reset token"), table |-> tbl, id |-> 0]
       ELSE IF ~\E u \in tbl : u.id = v.decoded.id
       THEN [resp |-> Response(404, "Not Found", "User not found"), table |-> tbl, id |-> 0]
       ELSE [resp |-> Response(200, None, "Password reset successfully"),
             table |-> savePassword(tbl, v.decoded.id, newPassword), id |-> v.decoded.id]

\* GET /api/auth/me
getProfile(tbl, header, t) ==
  LET auth == authMiddleware(tbl, header, t) IN
  IF ~auth.next THEN auth.resp
  ELSE IF ~\E u \in tbl : u.id = auth.user.id
  THEN Response(404, "Not Found", "User not found")
  ELSE Response(200, None, None)

\* rbacMiddleware(allowedRoles): req is <<>> or [user |-> ...]; a role that is
\* undefined or empty is falsy
rbacMiddleware(allowedRoles, req) ==
  IF "user" \notin DOMAIN req \/ req.user.role = None \/ req.user.role = ""
  THEN [next |-> FALSE,
        resp |-> Unauthorized("Authentication required before role verification.")]
  ELSE IF req.user.role \in allowedRoles
  THEN [next |-> TRUE, resp |-> NoResponse]
  ELSE [next |-> FALSE,
        resp |-> Response(403, "Forbidden",
                          "You do not have permission to access this resource.")]

\* app.use('/api/reports', authMiddleware, rbacMiddleware(['admin']), reportRoutes):
\* reached says that the route handler was entered
adminRoute(tbl, header, t) ==
  LET auth == authMiddleware(tbl, header, t) IN
  IF ~auth.next THEN [reached |-> FALSE, resp |-> auth.resp]
  ELSE LET rbac == rbacMiddleware({"admin"}, [user |-> auth.user]) IN
       [reached |-> rbac.next, resp |-> rbac.resp]

\* the TypeError of reading req.user.role when req.user is undefined
RoleOfUndefined ==
  [name |-> "TypeError",
   message |-> "Cannot read properties of undefined (reading 'role')",
   stack |-> "TypeError: Cannot read properties of undefined (reading 'role')"]

\* ownerOrAdmin(getResourceUserId), resourceUserId being what getResourceUserId(req)
\* resolves to; an exception goes to next(error), that is to errorHandler
ownerOrAdmin(resourceUserId, req) ==
  IF "user" \notin DOMAIN req
  THEN [next |-> FALSE, resp |-> errorHandler(RoleOfUndefined)]
  ELSE IF req.user.role = "admin"
  THEN [next |-> TRUE, resp |-> NoResponse]
  ELSE IF req.user.id = resourceUserId
  THEN [next |-> TRUE, resp |-> NoResponse]
  ELSE [next |-> FALSE,
        resp |-> Response(403, "Forbidden",
                          "You do not have permission to access this resource.")]

\* a route mounted as authMiddleware, ownerOrAdmin(getResourceUserId), handler
ownerRoute(tbl, header, resourceUserId, t) ==
  LET auth == authMiddleware(tbl, header, t) IN
  IF ~auth.next THEN [reached |-> FALSE, resp |-> auth.resp]
  ELSE LET guard == ownerOrAdmin(resourceUserId, [user |-> auth.user]) IN
       [reached |-> guard.next, resp |-> guard.resp]

-----------------------------------------------------------------------------
(* Inputs of the password routes *)

\* request bodies of POST /api/auth/register: email, password, fullName, phone, roleId
RegisterInputs ==
  {<<"alice@x.com", "Passw0rd!", "Alice A", None, NoRole>>,
   <<"alice@x.com", "$2b$abcd1", "Alice A", "+9779841234567", ROLE_ADMIN>>,
   <<"bob@x.com", "Passw0rd!", "Bob B", None, NoRole>>,
   <<"alice", "Passw0rd!", "Alice A", None, NoRole>>,
   <<"bob@x.com", "short", "Bob B", None, NoRole>>,
   <<"bob@x.com", "Passw0rd!", "", None, NoRole>>,
   <<"bob@x.com", "Passw0rd!", "Bob B", "12345", NoRole>>,
   <<"bob@x.com", "Passw0rd!", "Bob B", None, 3>>}

EmailInputs == {"alice@x.com", "bob@x.com", "alice"}

PasswordInputs == {"Passw0rd!", "$2b$abcd1", "short"}

\* the credentials a client can present: none, a malformed one, a token it kept, or
\* a token of the response it has just received
TokenInputs(j, l) ==
  {<<>>, <<NoToken>>, <<j.accessToken>>, <<j.refreshToken>>, <<j.resetToken>>}
  \cup {<<l.resp.tokens[i]>> : i \in DOMAIN l.resp.tokens}

HeaderInputs(j, l) ==
  {<<>>, <<"Bearer">>} \cup {<<"Bearer", tk[1]>> : tk \in TokenInputs(j, l) \ {<<>>}}

\* change-password requests: every password pair with the held access token, and
\* one request per other credential
ChangeInputs(j, l) ==
  ({<<"Bearer", j.accessToken>>} \X PasswordInputs \X PasswordInputs)
  \cup (HeaderInputs(j, l) \X {"Passw0rd!"} \X {"$2b$abcd1"})

\* reset-password requests: every password with the held reset token, and one
\* request per other credential
ResetInputs(j, l) ==
  ({<<j.resetToken>>} \X (PasswordInputs \cup {""}))
  \cup (TokenInputs(j, l) \X {"Passw0rd!"})

\* advances of the clock: half the life of an access token, the life of a refresh token
ClockSteps == {ACCESS_TTL \div 2, REFRESH_TTL}

OtpVars == <<otpStore, timers, reqs, issueCount, lastIssue, okSince>>

-----------------------------------------------------------------------------
(* The password routes as actions *)

Register(in) ==
  LET r == register(users, in[1], in[2], in[3], in[4], in[5], env, now) IN
  /\ users' = r.table
  /\ curPw' = IF r.id # 0 THEN SetPw(curPw, r.id, in[2]) ELSE curPw
  /\ last' = Completed("register", None, r.resp)
  /\ jar' = Kept(jar, r.resp)
  /\ UNCHANGED <<now, ticks, env, web>>
  /\ UNCHANGED OtpVars

Login(email, password) ==
  LET resp == login(users, email, password, env, now) IN
  /\ last' = Completed("login", None, resp)
  /\ jar' = Kept(jar, resp)
  /\ UNCHANGED <<now, ticks, env, web, users, curPw>>
  /\ UNCHANGED OtpVars

\* the client goes on holding the pair it presented
RefreshToken(token) ==
  LET resp == refreshToken(users, token, env, now) IN
  /\ last' = Completed("refreshToken", None, resp)
  /\ UNCHANGED <<now, ticks, env, web, users, jar, curPw>>
  /\ UNCHANGED OtpVars

ChangePassword(header, currentPassword, newPassword) ==
  LET r == changePassword(users, header, currentPassword, newPassword, now) IN
  /\ users' = r.table
  /\ curPw' = IF r.id # 0 THEN SetPw(curPw, r.id, newPassword) ELSE curPw
  /\ last' = Completed("changePassword", None, r.resp)
  /\ UNCHANGED <<now, ticks, env, web, jar>>
  /\ UNCHANGED OtpVars

ForgotPassword(email) ==
  LET r == forgotPassword(users, email, env, now) IN
  /\ last' = Completed("forgotPassword", None, r.resp)
  /\ jar' = IF r.resetToken = NoToken THEN jar ELSE [jar EXCEPT !.resetToken = r.resetToken]
  /\ UNCHANGED <<now, ticks, env, web, users, curPw>>
  /\ UNCHANGED OtpVars

ResetPassword(token, newPassword) ==
  LET r == resetPassword(users, token, newPassword, env, now) IN
  /\ users' = r.table
  /\ curPw' = IF r.id # 0 THEN SetPw(curPw, r.id, newPassword) ELSE curPw
  /\ last' = Completed("resetPassword", None, r.resp)
  /\ UNCHANGED <<now, ticks, env, web, jar>>
  /\ UNCHANGED OtpVars

GetProfile(header) ==
  /\ last' = Completed("getProfile", None, getProfile(users, header, now))
  /\ UNCHANGED <<now, ticks, env, web, users, jar, curPw>>
  /\ UNCHANGED OtpVars

\* a request to /api/reports: the response of the middleware chain, or none when
\* the route handler is reached
Reports(header) ==
  /\ last' = Completed("reports", None, adminRoute(users, header, now).resp)
  /\ UNCHANGED <<now, ticks, env, web, users, jar, curPw>>
  /\ UNCHANGED OtpVars

\* a privileged change of an account's role in the users table
UpdateRole(id, roleId) ==
  /\ \E u \in users : u.id = id /\ u.roleId # roleId
  /\ roleExists(roleId)
  /\ users' = {IF u.id = id THEN [u EXCEPT !.roleId = roleId] ELSE u : u \in users}
  /\ last' = Silent
  /\ UNCHANGED <<now, ticks, env, web, jar, curPw>>
  /\ UNCHANGED OtpVars

\* time passes
Advance(d) ==
  /\ ticks < MaxTicks
  /\ now' = now + d
  /\ ticks' = ticks + 1
  /\ last' = Silent
  /\ UNCHANGED <<env, web, users, jar, curPw>>
  /\ UNCHANGED OtpVars

\* otp.controller imports jsonwebtoken, express-validator, axios, User, Role and
\* createError: the name bcrypt is bound to nothing there
bcryptInScope == FALSE

BcryptNotDefined ==
  [name |-> "ReferenceError", message |-> "bcrypt is not defined",
   stack |-> "ReferenceError: bcrypt is not defined"]

\* POST /api/auth/link-phone: authMiddleware, the validation chain, then
\* linkPhoneToAccount, for a body that carries email and password; an exception goes
\* to next(error), that is to errorHandler
linkPhoneToAccount(tbl, header, phone, email, password, t) ==
  LET auth == authMiddleware(tbl, header, t) IN
  IF ~auth.next THEN [resp |-> auth.resp, table |-> tbl]
  ELSE IF ~(PhoneValid(phone) /\ IsEmail(email) /\ Len(password) >= MIN_PASSWORD_LEN)
  THEN [resp |-> ValidationFailed, table |-> tbl]
  ELSE IF ~\E u \in tbl : u.email = email
  THEN [resp |-> Response(404, "Not Found", "User not found with this email."),
        table |-> tbl]
  ELSE IF ~bcryptInScope
  THEN [resp |-> errorHandler(BcryptNotDefined), table |-> tbl]
  ELSE LET user == userByEmail(tbl, email)
           formattedPhone == formatNepaliPhone(phone)
       IN IF ~bcryptCompare(password, user.password_hash)
          THEN [resp |-> Unauthorized("Invalid password."), table |-> tbl]
          ELSE IF \E o \in tbl : o.phone = formattedPhone /\ o.id # user.id
          THEN [resp |-> Response(409, "Conflict",
                           "This phone number is already linked to another account."),
                table |-> tbl]
          ELSE [resp |-> Response(200, None, "Phone number linked successfully"),
                table |-> {IF u.id = user.id
                           THEN [u EXCEPT !.phone = formattedPhone,
                                          !.password_hash = hashPassword(@)]
                           ELSE u : u \in tbl}]

LinkPhone(header, phone, email, password) ==
  LET r == linkPhoneToAccount(users, header, phone, email, password, now) IN
  /\ users' = r.table
  /\ last' = Completed("linkPhoneToAccount", None, r.resp)
  /\ UNCHANGED <<now, ticks, env, web, jar, curPw>>
  /\ UNCHANGED OtpVars

\* register as it runs between its awaits: the body is validated and the account
\* looked up by email; a request that found none goes on to the role lookup (the
\* roles table never changes) and the save, after whatever other requests did
RegisterBegin(r, in) ==
  /\ reqs[r] = Idle
  /\ IF ~RegisterBodyValid(in[1], in[2], in[3], in[4], in[5])
     THEN /\ last' = Completed("register", None, ValidationFailed)
          /\ reqs' = reqs
     ELSE IF existingUser(users, in[1])
     THEN /\ last' = Completed("register", None, EmailConflictResponse)
          /\ reqs' = reqs
     ELSE /\ last' = Silent
          /\ reqs' = [reqs EXCEPT ![r] = [pc |-> "registerSave", body |-> in]]
  /\ UNCHANGED <<now, ticks, env, web, users, jar, curPw, otpStore, timers, issueCount,
                 lastIssue, okSince>>

RegisterSave(r) ==
  /\ reqs[r].pc = "registerSave"
  /\ LET in == reqs[r].body
         s == registerSave(users, in[1], in[2], in[4], in[5], env, now)
     IN /\ users' = s.table
        /\ curPw' = IF s.id # 0 THEN SetPw(curPw, s.id, in[2]) ELSE curPw
        /\ last' = Completed("register", in[1], s.resp)
        /\ jar' = Kept(jar, s.resp)
  /\ reqs' = [reqs EXCEPT ![r] = Idle]
  /\ UNCHANGED <<now, ticks, env, web, otpStore, timers, issueCount, lastIssue, okSince>>

-----------------------------------------------------------------------------
(* The web client (apps/web): localStorage, the login-phone page and one   *)
(* call through an axios instance whose response interceptor refreshes the *)
(* token pair.  lib/api and AuthContext each create such an instance.      *)

\* localStorage without items, the page as useState initialises it, no call in flight
WebStart ==
  [storage  |-> [accessToken |-> NoToken, refreshToken |-> NoToken, user |-> ""],
   route    |-> "/login-phone",
   step     |-> "phone",
   phone    |-> "",
   otp      |-> "",
   call     |-> [pc |-> "idle", op |-> None, header |-> <<>>, phone |-> None,
                 otp |-> None, fullName |-> None, retry |-> FALSE, refreshCalls |-> 0,
                 retries |-> 0, result |-> None, cause |-> None]]

\* a logout that leaves the user item in localStorage
handleLogout_keepsUser(w) ==
  [w EXCEPT !.storage.accessToken = NoToken, !.storage.refreshToken = NoToken,
            !.route = "/login"]

\* lib/api: the three items are removed and the window is sent to /login
handleLogout(w) == [w EXCEPT !.storage = WebStart.storage, !.route = "/login"]

\* AuthContext: the three items are removed, setUser(null), router.push('/login')
logout(w) == [w EXCEPT !.storage = WebStart.storage, !.route = "/login"]

\* api.get / api.post: the request interceptor puts the stored access token, if
\* any, in the Authorization header; _retry is not set on a new config
apiRequest(w, op, phone, otp, fullName) ==
  [w EXCEPT !.call = [WebStart.call EXCEPT
      !.pc = "sent", !.op = op, !.phone = phone, !.otp = otp, !.fullName = fullName,
      !.header = IF w.storage.accessToken = NoToken THEN <<>>
                 ELSE <<"Bearer", w.storage.accessToken>>]]

\* the caller's continuation once the promise of the call is settled with resp:
\* loadUserFromStorage for /auth/me, handleSendOTP and handleVerifyOTP of the page
settled(w, resp) ==
  IF w.call.op = "me"
  THEN IF w.call.result = "rejected" /\ resp.status = 401
       THEN [w EXCEPT !.storage = WebStart.storage]
       ELSE w
  ELSE IF w.call.op = "send-otp"
  THEN IF w.call.result = "resolved" THEN [w EXCEPT !.step = "otp"] ELSE w
  ELSE IF w.call.result = "resolved"
  THEN [w EXCEPT !.storage = [accessToken |-> resp.tokens[1],
                              refreshToken |-> resp.tokens[2], user |-> w.call.phone],
                 !.route = "/dashboard"]
  ELSE IF resp.error = "Registration Required"
  THEN [w EXCEPT !.step = "register"]
  ELSE w

\* the login-phone page is opened, or opened again after a redirect
PageOpen ==
  /\ web.route # "/login-phone"
  /\ web.call.pc \in {"idle", "done"}
  /\ web' = [web EXCEPT !.route = "/login-phone", !.step = "phone", !.phone = "",
                        !.otp = "", !.call = WebStart.call]
  /\ UNCHANGED <<now, ticks, env, users, otpStore, timers, reqs, last, jar, issueCount,
                 lastIssue, okSince, curPw>>

\* handleSendOTP in the phone step and handleResendOTP in the otp step; validatePhone
\* tests the pattern of the server's validator
PageSendOTP(phone) ==
  /\ web.route = "/login-phone"
  /\ web.call.pc \in {"idle", "done"}
  /\ \/ web.step = "phone" /\ PhoneValid(phone)
     \/ web.step = "otp" /\ phone = web.phone
  /\ web' = apiRequest([web EXCEPT !.phone = phone], "send-otp", phone, None, None)
  /\ last' = Silent
  /\ UNCHANGED <<now, ticks, env, users, otpStore, timers, reqs, jar, issueCount,
                 lastIssue, okSince, curPw>>

\* handleVerifyOTP submitted from the otp step: the body is { phone, otp }
PageVerify(otp) ==
  /\ web.route = "/login-phone"
  /\ web.call.pc \in {"idle", "done"}
  /\ web.step = "otp"
  /\ OtpValid(otp)
  /\ web' = apiRequest([web EXCEPT !.otp = otp], "verify-otp", web.phone, otp, None)
  /\ last' = Silent
  /\ UNCHANGED <<now, ticks, env, users, otpStore, timers, reqs, jar, issueCount,
                 lastIssue, okSince, curPw>>

\* handleRegister: the name is checked, then handleVerifyOTP posts the phone and
\* the code of the otp step again, now with fullName
PageRegister(fullName) ==
  /\ web.route = "/login-phone"
  /\ web.call.pc \in {"idle", "done"}
  /\ web.step = "register"
  /\ fullName # "" /\ Len(fullName) >= 2
  /\ OtpValid(web.otp)
  /\ web' = apiRequest(web, "verify-otp", web.phone, web.otp, fullName)
  /\ last' = Silent
  /\ UNCHANGED <<now, ticks, env, users, otpStore, timers, reqs, jar, issueCount,
                 lastIssue, okSince, curPw>>

\* loadUserFromStorage: with a token and a user stored, GET /auth/me
LoadUser ==
  /\ web.call.pc \in {"idle", "done"}
  /\ web.storage.accessToken # NoToken
  /\ web.storage.user # ""
  /\ web' = apiRequest(web, "me", None, None, None)
  /\ last' = Silent
  /\ UNCHANGED <<now, ticks, env, users, otpStore, timers, reqs, jar, issueCount,
                 lastIssue, okSince, curPw>>

\* the response to the request made through the instance arrives: the response
\* interceptor up to its await, and the caller's continuation when it settles
WebReceive ==
  /\ web.call.pc = "sent"
  /\ last.op # None
  /\ LET status == last.resp.status
         flagged == [web EXCEPT !.call.retry = TRUE]
     IN web' =
          IF status \in 200..299
          THEN settled([web EXCEPT !.call.pc = "done", !.call.result = "resolved"],
                       last.resp)
          ELSE IF status = 401 /\ ~web.call.retry
          THEN IF flagged.storage.refreshToken = NoToken
               THEN settled([(IF web.call.op = "me" THEN logout(flagged)
                              ELSE handleLogout(flagged))
                               EXCEPT !.call.pc = "done", !.call.result = "rejected",
                                      !.call.cause = "no refresh token"], last.resp)
               ELSE [flagged EXCEPT !.call.pc = "refresh", !.call.refreshCalls = @ + 1]
          ELSE settled([web EXCEPT !.call.pc = "done", !.call.result = "rejected"],
                       last.resp)
  /\ last' = Silent
  /\ UNCHANGED <<now, ticks, env, users, otpStore, timers, reqs, jar, issueCount,
                 lastIssue, okSince, curPw>>

\* the response to axios.post(.../auth/refresh-token) arrives: the new pair is
\* stored and the original request retried with axios, or the catch block runs
WebRefreshDone ==
  /\ web.call.pc = "refresh"
  /\ last.op # None
  /\ web' =
       IF last.resp.status \in 200..299
       THEN [web EXCEPT !.storage.accessToken = last.resp.tokens[1],
                        !.storage.refreshToken = last.resp.tokens[2],
                        !.call.header = <<"Bearer", last.resp.tokens[1]>>,
                        !.call.pc = "retry", !.call.retries = @ + 1]
       ELSE settled([(IF web.call.op = "me" THEN logout(web) ELSE handleLogout(web))
                       EXCEPT !.call.pc = "done", !.call.result = "rejected",
                              !.call.cause = "refresh failed"], last.resp)
  /\ last' = Silent
  /\ UNCHANGED <<now, ticks, env, users, otpStore, timers, reqs, jar, issueCount,
                 lastIssue, okSince, curPw>>

\* the response to axios(originalRequest) arrives; the global axios has no
\* interceptors, its promise is the one the caller awaits
WebRetryDone ==
  /\ web.call.pc = "retry"
  /\ last.op # None
  /\ web' = settled([web EXCEPT !.call.pc = "done",
                                !.call.result = IF last.resp.status \in 200..299
                                                THEN "resolved" ELSE "rejected"],
                    last.resp)
  /\ last' = Silent
  /\ UNCHANGED <<now, ticks, env, users, otpStore, timers, reqs, jar, issueCount,
                 lastIssue, okSince, curPw>>

-----------------------------------------------------------------------------
-----------------------------------------------------------------------------
(* Specifications *)

EnvConfigs ==
  [JWT_REFRESH_SECRET : BOOLEAN, JWT_RESET_SECRET : BOOLEAN,
   NODE_ENV : {"production", "development"}]

Start(e) ==
  /\ now = 0
  /\ ticks = 0
  /\ env = e
  /\ users = {}
  /\ otpStore = {}
  /\ timers = {}
  /\ reqs = [r \in ReqIds |-> Idle]
  /\ last = Silent
  /\ jar = EmptyJar
  /\ issueCount = 0
  /\ lastIssue = [p \in LedgerKeys |-> NoIssue]
  /\ okSince = [p \in LedgerKeys |-> 0]
  /\ curPw = <<>>
  /\ web = WebStart

\* the password routes, under every configuration of the secrets
Init == \E e \in EnvConfigs : Start(e)

Next ==
  \/ \E in \in RegisterInputs : Register(in)
  \/ \E email \in EmailInputs, password \in PasswordInputs : Login(email, password)
  \/ \E in \in ChangeInputs(jar, last) : ChangePassword(in[1], in[2], in[3])
  \/ \E email \in EmailInputs : ForgotPassword(email)
  \/ \E in \in ResetInputs(jar, last) : ResetPassword(in[1], in[2])

Spec == Init /\ [][Next]_vars

\* the OTP ledger and the phone/OTP flow, started after one account was registered
\* with a phone; these routes verify no token, so one configuration of the secrets
\* is explored
PhoneAccount == <<"alice@x.com", "Passw0rd!", "Alice A", "+9779841234567", NoRole>>

InitOtp ==
  LET e == [JWT_REFRESH_SECRET |-> FALSE, JWT_RESET_SECRET |-> FALSE,
            NODE_ENV |-> "production"]
      r == register({}, PhoneAccount[1], PhoneAccount[2], PhoneAccount[3], PhoneAccount[4],
                    PhoneAccount[5], e, 0)
  IN /\ now = 0
     /\ ticks = 0
     /\ env = e
     /\ users = r.table
     /\ otpStore = {}
     /\ timers = {}
     /\ reqs = [q \in ReqIds |-> Idle]
     /\ last = Silent
     /\ jar = EmptyJar
     /\ issueCount = 0
     /\ lastIssue = [p \in LedgerKeys |-> NoIssue]
     /\ okSince = [p \in LedgerKeys |-> 0]
     /\ curPw = SetPw(<<>>, r.id, PhoneAccount[2])
     /\ web = WebStart

NextOtp ==
  \/ \E in \in SendInputs : sendOTP(in[1], in[2], in[3])
  \/ \E tm \in timers : FireTimer(tm)
  \/ \E r \in ReqIds, in \in VerifyInputs : VerifyBegin(r, in[1], in[2], in[3])
  \/ \E r \in ReqIds : VerifyFindUser(r)
  \/ \E r \in ReqIds : VerifySave(r)
  \/ Tick

SpecOtp == InitOtp /\ [][NextOtp]_vars

\* the OTP routes in a process that keeps running: the event loop runs every
\* timeout callback that is due
TimerSlots == [phone : LedgerKeys, due : 0..(MaxClock + OTP_TTL)]

\* verify-otp requests arrive one after the other
NextOtpLive ==
  \/ \E in \in SendInputs : sendOTP(in[1], in[2], in[3])
  \/ \E tm \in timers : FireTimer(tm)
  \/ \E in \in VerifyInputs : VerifyBegin(1, in[1], in[2], in[3])
  \/ VerifyFindUser(1)
  \/ VerifySave(1)
  \/ Tick

SpecOtpLive ==
  InitOtp /\ [][NextOtpLive]_vars /\ \A tm \in TimerSlots : WF_vars(FireTimer(tm))

\* the life of a token pair: issue, use, refresh, role change, expiry
TokenAccounts ==
  {<<"alice@x.com", "Passw0rd!", "Alice A", None, NoRole>>,
   <<"bob@x.com", "Passw0rd!", "Bob B", None, ROLE_ADMIN>>,
   <<"bob@x.com", "Passw0rd!", "Bob B", None, 3>>}

InitTok ==
  \E r \in BOOLEAN :
    Start([JWT_REFRESH_SECRET |-> r, JWT_RESET_SECRET |-> FALSE, NODE_ENV |-> "production"])

NextTok ==
  \/ \E in \in TokenAccounts : Register(in)
  \/ \E email \in {"alice@x.com"}, password \in {"Passw0rd!", "short"} : Login(email, password)
  \/ \E token \in TokenInputs(jar, last) : RefreshToken(token)
  \/ \E header \in HeaderInputs(jar, last) : GetProfile(header)
  \/ \E header \in HeaderInputs(jar, last) : Reports(header)
  \/ \E id \in {u.id : u \in users}, roleId \in {ROLE_ADMIN, ROLE_PSR} : UpdateRole(id, roleId)
  \/ \E d \in ClockSteps : Advance(d)

SpecTok == InitTok /\ [][NextTok]_vars

\* every route that issues a token pair, each with one well-formed request
FlowPhone == "9841234567"

InitFlows ==
  Start([JWT_REFRESH_SECRET |-> FALSE, JWT_RESET_SECRET |-> FALSE, NODE_ENV |-> "production"])

NextFlows ==
  \/ Register(PhoneAccount)
  \/ Login(PhoneAccount[1], PhoneAccount[2])
  \/ \E token \in TokenInputs(jar, last) : RefreshToken(token)
  \/ sendOTP(FlowPhone, 0, TRUE)
  \/ \E r \in ReqIds : VerifyBegin(r, FlowPhone, generateOTP(0), None)
  \/ \E r \in ReqIds : VerifyFindUser(r)

SpecFlows == InitFlows /\ [][NextFlows]_vars

\* concurrent registrations: bodies that share an email or a phone, one with an
\* unknown role and one ill-formed
RaceInputs ==
  {PhoneAccount,
   <<"alice@x.com", "$2b$abcd1", "Alice A", None, ROLE_ADMIN>>,
   <<"bob@x.com", "Passw0rd!", "Bob B", "+9779841234567", NoRole>>,
   <<"bob@x.com", "Passw0rd!", "Bob B", None, 3>>,
   <<"alice", "Passw0rd!", "Alice A", None, NoRole>>}

InitRace ==
  Start([JWT_REFRESH_SECRET |-> FALSE, JWT_RESET_SECRET |-> FALSE, NODE_ENV |-> "production"])

\* link-phone requests: with and without the held access token, a free phone, the
\* phone of PhoneAccount and an ill-formed one, a known and an unknown email
LinkInputs(j) ==
  {<<"Bearer", j.accessToken>>, <<>>} \X {"9801234567", "9841234567", "12345"}
  \X {"alice@x.com", "carol@x.com"} \X {"Passw0rd!"}

NextRace ==
  \/ \E r \in ReqIds, in \in RaceInputs : RegisterBegin(r, in)
  \/ \E r \in ReqIds : RegisterSave(r)
  \/ \E in \in LinkInputs(jar) : LinkPhone(in[1], in[2], in[3], in[4])

SpecRace == InitRace /\ [][NextRace]_vars

\* the web client against the server: the page's user types the phone of
\* PhoneAccount or a phone without an account, one of two codes, and a name; the
\* server handles a request once it is sent, and time stands still while a response
\* is on its way back.  Time passes in the steps that let the codes and tokens
\* expire; no request of the page gets as far as userRepository.save.
NextWeb ==
  \/ PageOpen
  \/ \E phone \in {"9841234567", "9801234567", "12345"} : PageSendOTP(phone)
  \/ \E k \in RandomSamples : PageVerify(generateOTP(k))
  \/ \E fullName \in {"Bo Li", "B"} : PageRegister(fullName)
  \/ LoadUser
  \/ WebReceive
  \/ WebRefreshDone
  \/ WebRetryDone
  \/ /\ web.call.op = "send-otp" /\ web.call.pc \in {"sent", "retry"} /\ last = Silent
     /\ \E k \in RandomSamples, smsSent \in BOOLEAN : sendOTP(web.call.phone, k, smsSent)
  \/ /\ web.call.op = "verify-otp" /\ web.call.pc \in {"sent", "retry"} /\ last = Silent
     /\ VerifyBegin(1, web.call.phone, web.call.otp, web.call.fullName)
  \/ VerifyFindUser(1)
  \/ /\ web.call.op = "me" /\ web.call.pc \in {"sent", "retry"} /\ last = Silent
     /\ GetProfile(web.call.header)
  \/ /\ web.call.pc = "refresh" /\ last = Silent
     /\ RefreshToken(<<web.storage.refreshToken>>)
  \/ last = Silent /\ \E d \in ClockSteps : Advance(d)

SpecWeb == InitOtp /\ [][NextWeb]_vars

-----------------------------------------------------------------------------
(* Claims about the OTP ledger, checked under SpecOtp *)

VerifiesNow(p, c) == verifyOTP(otpStore, p, c, now).ok

InFlight(r) == reqs[r].pc # "idle"

\* C1: OTP codes are single-use.  Between two issues for a phone at most one
\* verifyOTP call for that phone returns true, and once one has returned true no
\* code verifies for that phone (a second verify of the same pair returns false).
C1_SingleUse ==
  \A p \in LedgerKeys :
    /\ okSince[p] <= 1
    /\ okSince[p] = 1 => \A c \in OtpInputs : ~VerifiesNow(p, c)

\* a verify for a phone was rejected after an earlier verify for it had succeeded
C1_Witness ==
  \E p \in LedgerKeys :
    /\ okSince[p] = 1
    /\ last.op = "verifyOTPAndLogin" /\ last.key = p /\ last.resp.status = 401

\* C2: OTP codes expire.  A code verifies only while the ledger holds an entry
\* issued less than OTP_TTL ago, so at or after expires_at no code verifies, whether
\* or not the cleanup has run; and a request passes verification (the only way to a
\* token pair) only inside that window.
C2_ExpiredNeverVerifies ==
  /\ [](\A p \in LedgerKeys, c \in OtpInputs :
          VerifiesNow(p, c) => lastIssue[p] # NoIssue /\ now < lastIssue[p].at + OTP_TTL)
  /\ [][\A r \in ReqIds :
          (~InFlight(r) /\ InFlight(r)') =>
             /\ lastIssue[reqs'[r].phone] # NoIssue
             /\ now < lastIssue[reqs'[r].phone].at + OTP_TTL]_vars

\* a verify was rejected for a phone whose entry has expired and is still in the ledger
C2_Witness ==
  \E p \in LedgerKeys :
    /\ last.op = "verifyOTPAndLogin" /\ last.key = p /\ last.resp.status = 401
    /\ issueCount = 1 /\ okSince[p] = 0
    /\ \E tm \in timers : tm.phone = p /\ now >= tm.due
    /\ lastIssue[p] = NoIssue

\* C3: verifyOTP is an atomic check-then-delete.  No two requests in flight at the
\* same time have both passed verification on the same issued entry.
C3_AtMostOneConcurrentSuccess ==
  \A r1, r2 \in ReqIds :
    (r1 # r2 /\ reqs[r1].fresh /\ reqs[r2].fresh) => reqs[r1].phone # reqs[r2].phone

\* while one request that passed verification is in flight, a concurrent request
\* for the same phone has been rejected
C3_Witness ==
  \E r \in ReqIds :
    /\ InFlight(r) /\ reqs[r].fresh
    /\ last.op = "verifyOTPAndLogin" /\ last.key = reqs[r].phone
    /\ last.resp.status = 401

\* C4: the ledger holds at most one entry per phone, and only the code of the newest
\* issue for a phone can verify.
C4_OneEntryNewestCode ==
  \A p \in LedgerKeys :
    /\ Cardinality({e \in otpStore : e.key = p}) <= 1
    /\ \A c \in OtpInputs : VerifiesNow(p, c) => c = lastIssue[p].otp

\* a phone was issued two codes at different times, the newer is in the ledger and
\* a verify with another code has just been rejected
C4_Witness ==
  \E p \in LedgerKeys :
    /\ \E t1, t2 \in timers : t1.phone = p /\ t2.phone = p /\ t1.due # t2.due
    /\ MapHas(otpStore, p) /\ now < MapGet(otpStore, p).expiresAt
    /\ MapGet(otpStore, p).expiresAt = now + OTP_TTL - 1
    /\ last.op = "verifyOTPAndLogin" /\ last.key = p /\ last.resp.status = 401

-----------------------------------------------------------------------------
(* Claims about the password routes, checked under Spec *)

GenericLoginFailure == Unauthorized("Invalid email or password")

\* the login requests that pass the route's validation chain
LoginRequests == {in \in EmailInputs \X PasswordInputs : IsEmail(in[1]) /\ in[2] # ""}

UnknownEmail(in) == ~\E u \in users : u.email = in[1]

WrongPassword(in) ==
  \E u \in users : u.email = in[1] /\ ~bcryptCompare(in[2], u.password_hash)

\* C5: a login with an unknown email and a login with a known email and a wrong
\* password get the same status, error and message and no token, and every login
\* that was refused after validation got exactly that response.
C5_LoginFailuresIndistinguishable ==
  /\ \A a \in LoginRequests, b \in LoginRequests :
        (UnknownEmail(a) /\ WrongPassword(b)) =>
          /\ login(users, a[1], a[2], env, now) = login(users, b[1], b[2], env, now)
          /\ login(users, a[1], a[2], env, now) = GenericLoginFailure
  /\ (last.op = "login" /\ last.resp.status \notin {200, 400}) =>
        last.resp = GenericLoginFailure

\* a login was refused while one email is registered and another is not, and a
\* wrong password for the registered one is among the requests
C5_Witness ==
  /\ last.op = "login"
  /\ last.resp = GenericLoginFailure
  /\ \E a \in LoginRequests, b \in LoginRequests : UnknownEmail(a) /\ WrongPassword(b)

\* C6: for every account whose password was set by register, changePassword or
\* resetPassword to a value the password policy accepts, a login with that
\* email and that password succeeds.
C6_CorrectLoginSucceeds ==
  \A u \in users :
    (u.id \in DOMAIN curPw /\ PasswordStrong(curPw[u.id])) =>
      login(users, u.email, curPw[u.id], env, now).status = 200

\* the request bodies that pass register's validation chain
ValidBodies ==
  {in \in RegisterInputs :
     /\ IsEmail(in[1]) /\ PasswordStrong(in[2]) /\ FullNameValid(in[3])
     /\ IsMobilePhoneOpt(in[4]) /\ RoleIdOptValid(in[5])}

EmailConflict == Response(409, "Conflict", "User with this email already exists")

\* C7: registering a valid body whose email is already registered answers 409
\* Conflict and leaves the accounts as they were; a step that answered so changed
\* no account, no password and issued no token.
C7_DuplicateEmailConflict ==
  /\ [](\A in \in ValidBodies :
          (\E u \in users : u.email = in[1]) =>
            register(users, in[1], in[2], in[3], in[4], in[5], env, now)
              = [resp |-> EmailConflict, table |-> users, id |-> 0])
  /\ [][(last'.op = "register" /\ last'.resp.status = 409) =>
          /\ last'.resp = EmailConflict
          /\ users' = users /\ curPw' = curPw /\ jar' = jar]_vars

\* a registration has just been refused for an email that is already registered
C7_Witness ==
  /\ last.op = "register"
  /\ last.resp = EmailConflict
  /\ users # {}

-----------------------------------------------------------------------------
(* Claims about the life of a token pair, checked under SpecTok *)

\* the role a registration body asks for: the explicit one, else "psr"
AssignedRole(in) == IF in[5] = ROLE_ADMIN THEN "admin" ELSE "psr"

\* C8: a successful registration returns an access token whose role claim is the
\* role assigned to the new account (the explicit role when supplied, else psr),
\* and access verification accepts that token at every time before it expires;
\* the access token the client holds is accepted while it has not expired.
C8_RegisterTokenRole ==
  /\ \A in \in TokenAccounts :
        LET r == register(users, in[1], in[2], in[3], in[4], in[5], env, now)
            tok == r.resp.tokens[1]
        IN r.id # 0 =>
             /\ r.resp.status = 201
             /\ tok.payload.role = AssignedRole(in)
             /\ roleOf(userById(r.table, r.id)).roleName = AssignedRole(in)
             /\ tok.payload.id = r.id
             /\ tok.payload.exp = now + ACCESS_TTL
             /\ \A t \in now .. (tok.payload.exp - 1) :
                   authMiddleware(r.table, <<"Bearer", tok>>, t).next
  /\ (last.op = "register" /\ last.resp.status = 201) =>
        /\ jar.accessToken = last.resp.tokens[1]
        /\ jar.accessToken.payload.role
             = roleOf(userById(users, jar.accessToken.payload.id)).roleName
  /\ (jar.accessToken # NoToken /\ now < jar.accessToken.payload.exp) =>
        authMiddleware(users, <<"Bearer", jar.accessToken>>, now).next

\* a registration with an explicit admin role has just succeeded
C8_Witness ==
  /\ last.op = "register"
  /\ last.resp.status = 201
  /\ last.resp.tokens[1].payload.role = "admin"
  /\ getProfile(users, <<"Bearer", last.resp.tokens[1]>>, now).status = 200

\* C9: the access token returned by a successful refresh claims the role the
\* account has in the users table at the time of the refresh.
C9_RefreshUsesStoredRole ==
  (last.op = "refreshToken" /\ last.resp.status = 200) =>
    LET tok == last.resp.tokens[1] IN
    /\ \E u \in users : u.id = tok.payload.id
    /\ tok.payload.role = roleOf(userById(users, tok.payload.id)).roleName

\* a refresh has just returned an admin token to a client whose pair was issued
\* while the account was psr
C9_Witness ==
  /\ last.op = "refreshToken"
  /\ last.resp.status = 200
  /\ last.resp.tokens[1].payload.role = "admin"
  /\ last.resp.tokens[1].payload.id = jar.accessToken.payload.id
  /\ jar.accessToken.payload.role = "psr"

-----------------------------------------------------------------------------
(* Claims about every token-issuing route, checked under SpecFlows *)

RefreshClaims == {"id", "iat", "exp"}

AccessClaims == {"id", "role", "iat", "exp"}

\* C10: in every response of register, login, refresh-token and verify-otp that
\* carries a token pair, and in the pair the client holds, the refresh token has
\* the subject and the issue and expiry times only, and the access token has the
\* subject, the role and the two times.
C10_TokenClaimSets ==
  /\ last.resp.tokens # <<>> =>
        /\ last.op \in {"register", "login", "refreshToken", "verifyOTPAndLogin"}
        /\ DOMAIN last.resp.tokens[1].payload = AccessClaims
        /\ DOMAIN last.resp.tokens[2].payload = RefreshClaims
  /\ jar.accessToken # NoToken => DOMAIN jar.accessToken.payload = AccessClaims
  /\ jar.refreshToken # NoToken => DOMAIN jar.refreshToken.payload = RefreshClaims

\* verify-otp has just issued a pair to a client that already holds one from
\* register or login
C10_Witness ==
  /\ last.op = "verifyOTPAndLogin"
  /\ last.resp.tokens # <<>>
  /\ jar.refreshToken # NoToken

-----------------------------------------------------------------------------
(* Claims about refresh and access verification, checked under SpecTok *)

\* the users table as it is, and as it would be with one account's row removed
TablesWithout == {users} \cup {users \ {u} : u \in users}

\* C11: a refresh with a token whose signature is invalid, or which has expired, or
\* whose subject has no row in the users table, is answered 401 Unauthorized with
\* no token pair; every refused refresh carried no token pair.
C11_RefreshRejects ==
  /\ \A tk \in TokenInputs(jar, last) \ {<<>>} : \A tbl \in TablesWithout :
        LET tok == tk[1]
            resp == refreshToken(tbl, tk, env, now)
        IN (\/ tok.sig # RefreshSecret(env)
            \/ now >= tok.payload.exp
            \/ ~\E u \in tbl : u.id = tok.payload.id) =>
             /\ resp.status = 401
             /\ resp.error = "Unauthorized"
             /\ resp.tokens = <<>>
  /\ (last.op = "refreshToken" /\ last.resp.status # 200) =>
        /\ last.resp.status \in {400, 401}
        /\ last.resp.tokens = <<>>

\* a refresh has just been refused while the client holds an expired refresh token
\* of an existing account
C11_Witness ==
  /\ last.op = "refreshToken"
  /\ last.resp = Unauthorized("Invalid or expired refresh token")
  /\ jar.refreshToken # NoToken
  /\ now >= jar.refreshToken.payload.exp
  /\ \E u \in users : u.id = jar.refreshToken.payload.id

\* the client holds an unexpired access token, with the given role claim, of an
\* existing account that has that role
HoldsValidTokenOf(role) ==
  /\ jwtVerify(jar.accessToken, JWT_SECRET, now).ok
  /\ jar.accessToken.payload.role = role
  /\ \E u \in users : u.id = jar.accessToken.payload.id /\ roleOf(u).roleName = role

\* C12: a request to the admin-only route with a valid access token of an existing
\* psr account is answered 403 Forbidden.
C12_PsrForbidden ==
  HoldsValidTokenOf("psr") =>
    LET r == adminRoute(users, <<"Bearer", jar.accessToken>>, now) IN
    /\ ~r.reached
    /\ r.resp.status = 403
    /\ r.resp.error = "Forbidden"

\* C13: a request to the admin-only route with a valid access token of an existing
\* admin account reaches the route handler.
C13_AdminPasses ==
  HoldsValidTokenOf("admin") =>
    adminRoute(users, <<"Bearer", jar.accessToken>>, now).reached

\* the header of a request carries no token, or a token whose signature is invalid
\* or which has expired
BadHeader(header) ==
  \/ Len(header) < 2
  \/ header[2].sig # JWT_SECRET
  \/ now >= header[2].payload.exp

\* C14: a request to a protected route with no Authorization header, a header
\* without a token, a token with an invalid signature or an expired token is
\* answered 401 Unauthorized by the middleware and the route handler is not reached;
\* a request that got past the middlewares presented a credential of none of these kinds.
C14_BadCredentialUnauthorized ==
  /\ [](\A header \in HeaderInputs(jar, last) :
          BadHeader(header) =>
            LET auth == authMiddleware(users, header, now) IN
            /\ ~auth.next
            /\ auth.resp.status = 401
            /\ auth.resp.error = "Unauthorized"
            /\ getProfile(users, header, now) = auth.resp
            /\ adminRoute(users, header, now) = [reached |-> FALSE, resp |-> auth.resp])
  /\ [][(last'.op \in {"getProfile", "reports"} /\ last'.resp.status \notin {401, 403}) =>
          \E header \in HeaderInputs(jar, last) : ~BadHeader(header)]_vars

\* a protected route has just refused an expired access token that the client holds
C14_Witness ==
  /\ last.op = "getProfile"
  /\ last.resp = Unauthorized("Authentication token has expired. Please login again.")
  /\ jar.accessToken.sig = JWT_SECRET
  /\ now >= jar.accessToken.payload.exp

-----------------------------------------------------------------------------
(* Claims about the phone/OTP login, checked under SpecOtp *)

AccountsOf(tbl, phone) == {u \in tbl : u.phone = phone}

\* C15: a verify-otp that passed verification for a phone with no account and with
\* fullName present ends with 200 and a token pair whose access token has role psr,
\* having created exactly one account for that phone, with role psr; for a phone
\* that has an account it ends with 200 and a token pair of that account and
\* creates none.
C15_OtpCreatesOrReusesAccount ==
  [][\A r \in ReqIds :
       /\ (reqs[r].pc = "save" /\ reqs'[r].pc = "idle") =>
            /\ last'.resp.status = 200
            /\ last'.resp.tokens # <<>>
            /\ last'.resp.tokens[1].payload.role = "psr"
            /\ Cardinality(users') = Cardinality(users) + 1
            /\ Cardinality(AccountsOf(users', reqs[r].phone)) = 1
            /\ \A u \in AccountsOf(users', reqs[r].phone) :
                  /\ roleOf(u).roleName = "psr"
                  /\ last'.resp.tokens[1].payload.id = u.id
       /\ (reqs[r].pc = "findUser" /\ reqs'[r].pc = "idle"
             /\ AccountsOf(users, reqs[r].phone) # {}) =>
            /\ last'.resp.status = 200
            /\ last'.resp.tokens # <<>>
            /\ users' = users
            /\ \E u \in AccountsOf(users, reqs[r].phone) :
                  last'.resp.tokens[1].payload.id = u.id]_vars

\* C16: a verify-otp that passed verification and ends in Registration Required
\* creates no account and returns no token, and unless a new code was issued for the
\* phone meanwhile no code verifies for it when the response is sent; from a
\* successful verification until the next issue for the phone no code verifies.
C16_RegistrationRequiredConsumes ==
  /\ [][\A r \in ReqIds :
         (reqs[r].pc = "findUser" /\ reqs'[r].pc = "idle"
            /\ last'.resp.error = "Registration Required") =>
           /\ last'.resp.status = 400
           /\ last'.resp.tokens = <<>>
           /\ users' = users
           /\ AccountsOf(users', reqs[r].phone) = {}
           /\ reqs[r].fresh =>
                 \A c \in OtpInputs : ~verifyOTP(otpStore', reqs[r].phone, c, now').ok]_vars
  /\ [](\A p \in LedgerKeys :
          okSince[p] >= 1 => \A c \in OtpInputs : ~VerifiesNow(p, c))

\* Registration Required has just been answered for a phone whose code was consumed
\* and for which no new code was issued
C16_Witness ==
  /\ last.op = "verifyOTPAndLogin"
  /\ last.resp.error = "Registration Required"
  /\ okSince[last.key] = 1
  /\ ~MapHas(otpStore, last.key)
  /\ AccountsOf(users, last.key) = {}

\* C17: a send-otp whose SMS dispatch fails answers with a server error and stores
\* nothing: the ledger and the pending cleanups are as they were before the request.
C17_FailedSendStoresNothing ==
  [][(last'.op = "sendOTP" /\ last'.resp.status \notin {200, 400}) =>
       /\ last'.resp.status >= 500
       /\ otpStore' = otpStore
       /\ timers' = timers
       /\ \A c \in OtpInputs :
             verifyOTP(otpStore', last'.key, c, now').ok
               = verifyOTP(otpStore, last'.key, c, now).ok]_vars

-----------------------------------------------------------------------------
(* Claims about password recovery, checked under Spec *)

Registered(email) == \E u \in users : u.email = email

\* C18: for a registered and an unregistered email forgotPassword returns the same
\* response, status and body.
C18_ForgotAntiEnumerating ==
  \A a \in EmailInputs, b \in EmailInputs :
    (Registered(a) /\ ~Registered(b)) =>
      forgotPassword(users, a, env, now).resp = forgotPassword(users, b, env, now).resp

\* C19: once a resetPassword presenting a reset token issued by forgotPassword has
\* succeeded, a resetPassword presenting the same token is refused.
C19_ResetTokenSingleUse ==
  [][\A pw \in PasswordInputs :
       (/\ jar.resetToken # NoToken
        /\ ResetPassword(<<jar.resetToken>>, pw)
        /\ last'.resp.status = 200) =>
         \A again \in PasswordInputs :
           LET r == resetPassword(users', <<jar.resetToken>>, again, env, now') IN
           /\ r.resp.status # 200
           /\ r.table = users']_vars

\* the unexpired access and refresh tokens the client holds
HeldSessionTokens ==
  {tok \in {jar.accessToken, jar.refreshToken} : tok # NoToken /\ now < tok.payload.exp}

\* C20: an unexpired access or refresh token of an account presented to
\* resetPassword as the reset token is answered 401 Unauthorized and no password
\* changes, whichever secrets are configured.
C20_ResetChecksPurpose ==
  \A tok \in HeldSessionTokens, pw \in PasswordInputs :
    LET r == resetPassword(users, <<tok>>, pw, env, now) IN
    /\ r.resp.status = 401
    /\ r.table = users

-----------------------------------------------------------------------------
(* Claims about changePassword, checked under Spec *)

WrongCurrent == Unauthorized("Current password is incorrect")

\* the change-password requests of an authenticated caller that pass the validation
\* chain and whose current password does not match the stored hash
MismatchedChanges ==
  {in \in ChangeInputs(jar, last) :
     /\ authMiddleware(users, in[1], now).next
     /\ in[2] # "" /\ PasswordStrong(in[3]) /\ in[3] # in[2]
     /\ ~bcryptCompare(in[2],
           userById(users, authMiddleware(users, in[1], now).user.id).password_hash)}

Caller(in) == userById(users, authMiddleware(users, in[1], now).user.id)

-----------------------------------------------------------------------------
(* Further claims about the OTP routes, checked under SpecOtp *)

InvalidOtp ==
  Response(401, "Invalid OTP", "The verification code is invalid or has expired.")

\* the well-formed verify-otp bodies
ValidVerifyInputs ==
  {in \in VerifyInputs : PhoneValid(in[1]) /\ OtpValid(in[2]) /\ FullNameOptValid(in[3])}

NoEntry(in) == ~MapHas(otpStore, formatNepaliPhone(in[1]))

ExpiredEntry(in) ==
  /\ MapHas(otpStore, formatNepaliPhone(in[1]))
  /\ MapGet(otpStore, formatNepaliPhone(in[1])).expiresAt <= now

WrongCode(in) ==
  /\ MapHas(otpStore, formatNepaliPhone(in[1]))
  /\ MapGet(otpStore, formatNepaliPhone(in[1])).expiresAt > now
  /\ MapGet(otpStore, formatNepaliPhone(in[1])).otp # in[2]

\* C22: a well-formed verify-otp for a phone with no entry, with an expired entry
\* or with a wrong code is answered at once with one and the same response, 401
\* "Invalid OTP" with one message.
C22_OtpFailuresIndistinguishable ==
  \A in \in ValidVerifyInputs :
    (NoEntry(in) \/ ExpiredEntry(in) \/ WrongCode(in)) =>
      LET s == verifyOTPAndLoginBegin(otpStore, in[1], in[2], in[3], now) IN
      /\ s.done
      /\ s.resp = InvalidOtp

\* a wrong code has just been refused for a phone whose entry is held and unexpired
C22_Witness ==
  /\ last.op = "verifyOTPAndLogin"
  /\ last.resp = InvalidOtp
  /\ MapHas(otpStore, last.key)
  /\ now < MapGet(otpStore, last.key).expiresAt

-----------------------------------------------------------------------------
(* Claims about concurrent registrations, checked under SpecRace *)

\* a request at its save whose email was taken after its lookup
LosesRace(r) ==
  /\ reqs[r].pc = "registerSave"
  /\ existingUser(users, reqs[r].body[1])

\* C23: of two interleaved register requests for one email that both passed the
\* existence check, one account is persisted and the request that saves second is
\* answered with 409 Conflict.
C23_RaceLoserGetsConflict ==
  [][\A r \in ReqIds :
       (LosesRace(r) /\ RegisterSave(r)) =>
         /\ users' = users
         /\ last'.resp.status = 409]_vars

\* C24: no two accounts share a phone that is set.
C24_PhoneUnique ==
  \A u, v \in users : (u.phone # None /\ u.phone = v.phone) => u.id = v.id

-----------------------------------------------------------------------------
(* Claims about the generated code, checked under SpecOtp *)

\* C25: every issued code is exactly six ASCII digits, and every code from 000000
\* to 999999, leading zeros included, can be issued.
C25_CodesCoverWholeRange ==
  /\ \A en \in otpStore : Len(en.value.otp) = 6 /\ AllDigits(en.value.otp)
  /\ \A code \in {"000000", "099999", "100000", "999999"} :
       \E k \in RandomRange : generateOTP(k) = code

-----------------------------------------------------------------------------
(* Claims about the guards and the error handler, checked under SpecTok *)

\* the ids a guarded resource can belong to
ResourceOwners == 1..3

\* C26: for a caller with a valid access token, ownerOrAdmin lets the request
\* through exactly when the caller owns the resource or the caller's role is admin,
\* and answers 403 Forbidden otherwise.
C26_OwnerOrAdminPasses ==
  \A role \in {"admin", "psr"}, owner \in ResourceOwners :
    HoldsValidTokenOf(role) =>
      LET r == ownerRoute(users, <<"Bearer", jar.accessToken>>, owner, now) IN
      /\ r.reached <=> (jar.accessToken.payload.id = owner \/ role = "admin")
      /\ ~r.reached => r.resp.status = 403

\* C27: a request that carries no verified identity is answered 401 Unauthorized by
\* rbacMiddleware and by ownerOrAdmin alike, and 403 Forbidden is answered only to
\* requests that carry one.
C27_NoIdentityUnauthorized ==
  \A owner \in ResourceOwners :
    /\ rbacMiddleware({"admin"}, <<>>).resp.status = 401
    /\ ownerOrAdmin(owner, <<>>).resp.status = 401
    /\ \A header \in HeaderInputs(jar, last) :
         (adminRoute(users, header, now).resp.status = 403
          \/ ownerRoute(users, header, owner, now).resp.status = 403) =>
           authMiddleware(users, header, now).next

C29_UnexpectedErrorGeneric ==
  /\ errorHandler(RoleOfUndefined).status = 500
  /\ errorHandler(RoleOfUndefined).message = "Internal server error"
  /\ env.NODE_ENV = "production" => errorHandlerStack(RoleOfUndefined, env) = None

-----------------------------------------------------------------------------
(* Claims about resetPassword, checked under Spec *)

\* C30: a reset-password request with a valid reset token and a new password that
\* breaks the route's policy (eight characters, a letter, a digit) is answered 400
\* and leaves the users table unchanged.
C30_ResetEnforcesPolicy ==
  [][\A pw \in PasswordInputs :
       (/\ jwtVerify(jar.resetToken, ResetSecret(env), now).ok
        /\ ~PasswordStrong(pw)
        /\ ResetPassword(<<jar.resetToken>>, pw)) =>
         /\ users' = users
         /\ last'.resp.status = 400]_vars

-----------------------------------------------------------------------------
(* Claims about the stored password, checked under Spec *)

\* C31: the password_hash persisted for an account whose password was last set, by
\* register, changePassword or resetPassword, to a value the strength policy accepts
\* is the bcrypt hash of that value and differs from the value itself.
C31_OnlyHashesStored ==
  \A u \in users :
    (u.id \in DOMAIN curPw /\ PasswordStrong(curPw[u.id])) =>
      /\ u.password_hash = bcryptHash(curPw[u.id])
      /\ u.password_hash # curPw[u.id]

-----------------------------------------------------------------------------
(* Claims about link-phone, checked under SpecRace *)

\* C32: link-phone with a valid access token, the email and the correct password of
\* an existing account and a valid phone that no other account holds is answered
\* 200 and sets that account's phone to the normalized phone, leaving its password
\* hash and role as they were; with a phone that another account holds it is
\* answered 409 and changes no account.
C32_LinkPhoneSucceeds ==
  \A in \in LinkInputs(jar), u \in users :
    (/\ authMiddleware(users, in[1], now).next
     /\ PhoneValid(in[2])
     /\ u.email = in[3]
     /\ bcryptCompare(in[4], u.password_hash)) =>
      LET r == linkPhoneToAccount(users, in[1], in[2], in[3], in[4], now)
          taken == \E o \in users : o.phone = formatNepaliPhone(in[2]) /\ o.id # u.id
      IN IF taken
         THEN r.resp.status = 409 /\ r.table = users
         ELSE /\ r.resp.status = 200
              /\ r.table = {IF x.id = u.id
                             THEN [x EXCEPT !.phone = formatNepaliPhone(in[2])]
                             ELSE x : x \in users}

-----------------------------------------------------------------------------
(* Claims about the cleanup of the ledger, checked under SpecOtpLive *)

\* the ledger holds for phone p an entry whose expiry time has passed
HoldsExpired(p) == MapHas(otpStore, p) /\ MapGet(otpStore, p).expiresAt <= now

\* C33: an entry of the ledger whose expiry time has passed is eventually gone from
\* the ledger: whenever a phone's entry has expired, later the phone has no entry
\* or a newer, unexpired one.
C33_ExpiredEntriesLeave ==
  \A p \in LedgerKeys : HoldsExpired(p) ~> ~HoldsExpired(p)

\* an entry has outlived its expiry time
C33_Witness == \E p \in LedgerKeys : HoldsExpired(p)

-----------------------------------------------------------------------------
(* Further claims about the ledger, checked under SpecOtpLive *)

\* the timer was scheduled by an issue earlier than the one whose entry the ledger
\* holds for the timer's phone, and that entry has not expired
OutlivedTimer(tm) ==
  /\ MapHas(otpStore, tm.phone)
  /\ tm.due < MapGet(otpStore, tm.phone).expiresAt
  /\ now < MapGet(otpStore, tm.phone).expiresAt

\* C34: the cleanup scheduled by an earlier issue, when it runs, leaves in place the
\* unexpired entry of a later issue for the same phone, whose code still verifies.
C34_OldTimerSparesNewEntry ==
  [][\A tm \in timers :
       (OutlivedTimer(tm) /\ FireTimer(tm)) =>
         /\ otpStore' = otpStore
         /\ verifyOTP(otpStore', tm.phone, MapGet(otpStore, tm.phone).otp, now).ok]_vars

\* the timer of an earlier issue is due while the entry of the re-issue is live
C34_Witness == \E tm \in timers : now >= tm.due /\ OutlivedTimer(tm)

-----------------------------------------------------------------------------
(* Claims about failed attempts, checked under SpecOtp *)

\* C35: verifyOTP with a wrong code against an unexpired entry returns false and
\* leaves the ledger as it was, so the correct code still verifies after it, however
\* many wrong attempts were made.
C35_WrongCodeKeepsEntry ==
  \A p \in LedgerKeys, c \in OtpInputs :
    (/\ MapHas(otpStore, p)
     /\ now < MapGet(otpStore, p).expiresAt
     /\ c # MapGet(otpStore, p).otp) =>
      LET v == verifyOTP(otpStore, p, c, now) IN
      /\ ~v.ok
      /\ v.store = otpStore
      /\ verifyOTP(v.store, p, MapGet(otpStore, p).otp, now).ok

\* a wrong code has just been refused and the entry's own code still verifies
C35_Witness ==
  /\ last.op = "verifyOTPAndLogin"
  /\ last.resp.status = 401
  /\ MapHas(otpStore, last.key)
  /\ VerifiesNow(last.key, MapGet(otpStore, last.key).otp)

-----------------------------------------------------------------------------
(* Claims about formatNepaliPhone, checked under SpecOtp *)

\* ten-digit subscriber numbers, one of which begins with the digits 977
SubscriberNumbers == {"9841234567", "9771234567"}

\* the spellings of a subscriber number that the validator accepts
Spellings(n) == {n, "0" \o n, "977" \o n, "+977" \o n}

\* C36: every accepted spelling of a ten-digit subscriber number is normalized to
\* +977 followed by the ten digits, normalizing twice gives the same, and a code
\* stored under one spelling verifies under every other.
C36_NormalizationCanonical ==
  \A n \in SubscriberNumbers : \A sp \in Spellings(n) :
    /\ PhoneValid(sp)
    /\ formatNepaliPhone(sp) = "+977" \o n
    /\ formatNepaliPhone(formatNepaliPhone(sp)) = formatNepaliPhone(sp)
    /\ \A other \in Spellings(n) :
         verifyOTP(storeOTPEntry(otpStore, formatNepaliPhone(sp), generateOTP(0), now),
                   formatNepaliPhone(other), generateOTP(0), now).ok

-----------------------------------------------------------------------------
(* Claims about the purpose of a token *)

\* C37, checked under SpecTok: an unexpired access token presented to refreshToken
\* as the refresh token yields no token pair, whether or not JWT_REFRESH_SECRET is
\* configured.
C37_RefreshRefusesAccessToken ==
  (jar.accessToken # NoToken /\ now < jar.accessToken.payload.exp) =>
    LET resp == refreshToken(users, <<jar.accessToken>>, env, now) IN
    /\ resp.status = 401
    /\ resp.tokens = <<>>

\* C38, checked under Spec: a protected route whose bearer credential is an
\* unexpired refresh token or reset token of an existing account answers 401 and
\* does not reach its handler, whichever secrets are configured.
C38_RoutesRefuseOtherTokens ==
  \A tok \in {jar.refreshToken, jar.resetToken} \ {NoToken} :
    (now < tok.payload.exp /\ \E u \in users : u.id = tok.payload.id) =>
      LET auth == authMiddleware(users, <<"Bearer", tok>>, now) IN
      /\ ~auth.next
      /\ auth.resp.status = 401

-----------------------------------------------------------------------------
(* Claims about the web client, checked under SpecWeb *)

\* C39: a request through the client's axios instance that is answered 401 leads
\* to at most one refresh-token call and at most one retry, and once the
\* interceptor has found no refresh token stored, or the refresh call has failed,
\* accessToken, refreshToken and user are gone from localStorage.
C39_OneRefreshThenLogout ==
  /\ web.call.refreshCalls <= 1
  /\ web.call.retries <= 1
  /\ web.call.retries <= web.call.refreshCalls
  /\ web.call.cause \in {"no refresh token", "refresh failed"} =>
       /\ web.call.pc = "done"
       /\ web.call.result = "rejected"
       /\ web.storage = [accessToken |-> NoToken, refreshToken |-> NoToken, user |-> ""]

\* a request was answered 401, the one refresh call failed, and the handling ended
C39_Witness ==
  /\ web.call.cause = "refresh failed"
  /\ web.call.refreshCalls = 1
  /\ web.call.retries = 0
  /\ web.call.pc = "done"

\* C40: on the login-phone page, when the submission of the registration step (a
\* valid full name, sent with the phone and the code that the otp step had accepted,
\* within the code's lifetime) is settled, the user is authenticated: the call
\* resolved and the tokens and the user are in localStorage.
C40_RegistrationStepAuthenticates ==
  [][(/\ web.call.op = "verify-otp"
      /\ web.call.fullName # None
      /\ now < OTP_TTL
      /\ web.call.pc # "done"
      /\ web'.call.pc = "done")
     => /\ web'.call.result = "resolved"
        /\ web'.storage.accessToken # NoToken
        /\ web'.storage.user = web.call.phone]_vars

====
